---- MODULE Spec2Model ----
(***************************************************************************)
(* Model of gotapdance's endpoint selection: the phantom address selector  *)
(* (tapdance/phantoms/phantoms.go) and the decoy configuration store       *)
(* (tapdance/assets.go).                                                   *)
(*                                                                         *)
(* Numbers are kept small enough for TLC's integers: networks have at most *)
(* MaxHostBits host bits and their base addresses are below 2^31, so the   *)
(* big.Int arithmetic of the source is exact here.  Addresses are byte     *)
(* sequences (net.IP), secrets are byte sequences ([]byte).                *)
(***************************************************************************)
EXTENDS Integers, Sequences, FiniteSets, TLC

(***************************************************************************)
(* Bounds of the model                                                     *)
(***************************************************************************)
MaxSecretLen == 2
MaxGroups == 2
MaxHostBits == 2
MaxWeightHalves == 2

\* byte values secrets are built from: terminating varint bytes (< 0x80)
\* and the continuation byte 0x80
SecretBytes == {0, 3, 128}

\* invocations one caller makes with the same arguments
MaxCalls == 2

\* goroutines calling SelectPhantom, or using the store, concurrently
NProcs == 2
Procs == 1..NProcs

\* store operations started in one run
MaxOps == 2
\* calls made in one run on the store that is constructed on first use
MaxLazyOps == 3
\* highest generation number a caller sets
MaxGen == 1

NoIP == <<>>

VARIABLES
    rng,        \* state of the process-wide math/rand generator
    in,         \* arguments the sequential caller passes to SelectPhantom
    outcomes,   \* what its calls returned, in call order
    cand        \* candidate networks each call handed to selectIPAddr

VARIABLES
    pc,         \* per goroutine: where its SelectPhantom call stands
    cargs,      \* per goroutine: the arguments of its call
    sub,        \* per goroutine: the subnet strings getSubnets returned
    todo,       \* per goroutine: matching networks the lookup loop has left
    ret         \* per goroutine: what the call returned

VARIABLES
    path,       \* assets.path
    config,     \* assets.config, the in-memory ClientConf
    roots,      \* assets.roots
    mu,         \* the embedded sync.RWMutex: writer holding it, readers
    files,      \* the file system: content of every file name
    spc,        \* per goroutine: where its store operation stands
    sop,        \* per goroutine: the operation and its argument
    buf,        \* per goroutine: saveClientConf's marshalled buffer
    serr,       \* per goroutine: what saveClientConf returned
    sret,       \* per goroutine: what the operation returns
    old,        \* per goroutine: the configuration file when it locked
    nops,       \* operations started so far
    crashed,    \* "no", or where the writer stood when the program crashed
    hist        \* what the writers did so far: the list the last SetDecoys
                \* saved, whether AssetsSetDir on the same directory
                \* followed it, whether a save ever failed

VARIABLES
    assetsInstance, \* whether the package variable assetsInstance is set
    assetsOnce,     \* assetsOnce: not run, running in a goroutine, or done
    ref             \* per goroutine: whether it holds the *assets returned

selVars == <<in, outcomes, cand>>
lazyVars == <<assetsInstance, assetsOnce, ref>>
concVars == <<pc, cargs, sub, todo, ret>>
storeVars == <<path, config, roots, mu, files, spc, sop, buf, serr, sret, old,
               nops, crashed, hist, assetsInstance, assetsOnce, ref>>
vars == <<rng, in, outcomes, cand, pc, cargs, sub, todo, ret,
          path, config, roots, mu, files, spc, sop, buf, serr, sret, old,
          nops, crashed, hist, assetsInstance, assetsOnce, ref>>

(***************************************************************************)
(* Arithmetic helpers                                                      *)
(***************************************************************************)
RECURSIVE Pow2(_)
\* big.NewInt(2).Exp(2, n, nil); a negative exponent yields 1
Pow2(n) == IF n <= 0 THEN 1 ELSE 2 * Pow2(n - 1)

RECURSIVE BytesToInt(_)
\* big.Int.SetBytes: big-endian unsigned
BytesToInt(b) ==
    IF Len(b) = 0 THEN 0
    ELSE 256 * BytesToInt(SubSeq(b, 1, Len(b) - 1)) + b[Len(b)]

RECURSIVE IntToBytes(_)
\* big.Int.Bytes: minimal big-endian encoding, zero is the empty slice
IntToBytes(n) ==
    IF n = 0 THEN <<>>
    ELSE Append(IntToBytes(n \div 256), n % 256)

RECURSIVE ReadUvarintFrom(_, _, _, _)
ReadUvarintFrom(bs, i, x, s) ==
    IF i > Len(bs) THEN [ok |-> FALSE, val |-> 0]
    ELSE IF bs[i] < 128 THEN [ok |-> TRUE, val |-> x + bs[i] * Pow2(s)]
    ELSE ReadUvarintFrom(bs, i + 1, x + (bs[i] - 128) * Pow2(s), s + 7)

\* binary.ReadVarint(bytes.NewBuffer(seed)): zig-zag decoding of the leading
\* uvarint; fails when the buffer ends before a terminating byte
ReadVarint(bs) ==
    LET u == ReadUvarintFrom(bs, 1, 0, 0)
    IN  IF ~u.ok THEN u
        ELSE [ok |-> TRUE,
              val |-> IF u.val % 2 = 1 THEN -(u.val \div 2) - 1
                      ELSE u.val \div 2]

(***************************************************************************)
(* math/rand's process-wide generator                                      *)
(***************************************************************************)
RngMod == 256
RngInit == 1

\* one step of the generator
RngStep(r) == (5 * r + 3) % RngMod

\* a Seed that mixes the seed into the state it finds
RandSeedKeepsState(r, seedInt) == (r + seedInt * 7 + 11) % RngMod

\* rand.Seed(seedInt): the state becomes a function of the seed alone
RandSeed(r, seedInt) == (seedInt * 7 + 11) % RngMod

RECURSIVE RandRead(_, _)
\* rand.Read(buf) with len(buf) = n: the bytes drawn and the state after
RandRead(r, n) ==
    IF n = 0 THEN [bytes |-> <<>>, rng |-> r]
    ELSE LET r1 == RngStep(r)
             rest == RandRead(r1, n - 1)
         IN  [bytes |-> <<(r1 \div 4) % 256>> \o rest.bytes, rng |-> rest.rng]

\* rand.Intn(n), n > 0
RandIntn(r, n) == [val |-> (RngStep(r) \div 4) % n, rng |-> RngStep(r)]

(***************************************************************************)
(* Inputs: CIDR strings, subnet groups, secrets, filters                   *)
(***************************************************************************)
\* a CIDR string is what net.ParseCIDR makes of it: whether it parses, the
\* family, the address as written (host bits possibly set) and the prefix
\* length.  10.0.0.5 = 167772165, ::105 = 261.
CidrV4(h) == [ok |-> TRUE, v6 |-> FALSE, ip |-> 167772165, ones |-> 32 - h]
CidrV6(h) == [ok |-> TRUE, v6 |-> TRUE, ip |-> 261, ones |-> 128 - h]
BadCidr == [ok |-> FALSE, v6 |-> FALSE, ip |-> 0, ones |-> 0]

HostBitsSet == {0, MaxHostBits}
Cidrs == {CidrV4(h) : h \in HostBitsSet} \cup {CidrV6(h) : h \in HostBitsSet}
             \cup {BadCidr}

\* ConjurePhantomSubnet; Weight is the float32 weight counted in halves
Groups == [Weight : 0..MaxWeightHalves, Subnets : {<<c>> : c \in Cidrs}]

RECURSIVE SeqsUpTo(_, _)
SeqsUpTo(S, n) ==
    IF n = 0 THEN {<<>>}
    ELSE LET shorter == SeqsUpTo(S, n - 1)
         IN  shorter \cup {Append(q, x) : q \in shorter, x \in S}

\* SubnetConfig.WeightedSubnets
Configs == SeqsUpTo(Groups, MaxGroups)
Secrets == SeqsUpTo(SecretBytes, MaxSecretLen)
\* SubnetFilter values: nil, V4Only, V6Only and a caller's filter that fails
Filters == {"nil", "V4Only", "V6Only", "FilterErr"}

Args == [seed : Secrets, subnets : Configs, transform : Filters,
         weighted : BOOLEAN]

(***************************************************************************)
(* getSubnets and the weightedrand chooser                                 *)
(***************************************************************************)
\* uint(cjSubnet.Weight): truncation of the float32 weight
WeightUint(g) == g.Weight \div 2

RECURSIVE InsertByWeight(_, _)
\* stable insertion of choice c into a list sorted by ascending weight
InsertByWeight(sorted, c) ==
    IF Len(sorted) = 0 THEN <<c>>
    ELSE IF sorted[Len(sorted)].Weight <= c.Weight THEN Append(sorted, c)
    ELSE Append(InsertByWeight(SubSeq(sorted, 1, Len(sorted) - 1), c),
                sorted[Len(sorted)])

RECURSIVE SortChoices(_)
SortChoices(cs) ==
    IF Len(cs) = 0 THEN <<>>
    ELSE InsertByWeight(SortChoices(SubSeq(cs, 1, Len(cs) - 1)), cs[Len(cs)])

RECURSIVE RunningTotals(_)
RunningTotals(cs) ==
    IF Len(cs) = 0 THEN <<>>
    ELSE LET prev == RunningTotals(SubSeq(cs, 1, Len(cs) - 1))
         IN  Append(prev, (IF Len(prev) = 0 THEN 0 ELSE prev[Len(prev)])
                              + cs[Len(cs)].Weight)

\* choices built by getSubnets from the groups
Choices(sc) == [i \in 1..Len(sc) |->
                   [Item |-> sc[i].Subnets, Weight |-> WeightUint(sc[i])]]

\* wr.NewChooser: nil (and an error getSubnets discards) when no choice
\* has a positive weight
NewChooser(choices) ==
    LET data == SortChoices(choices)
        totals == RunningTotals(data)
        max == IF Len(totals) = 0 THEN 0 ELSE totals[Len(totals)]
    IN  IF max < 1 THEN [nil |-> TRUE, data |-> <<>>, totals |-> <<>>, max |-> 0]
        ELSE [nil |-> FALSE, data |-> data, totals |-> totals, max |-> max]

\* sort.SearchInts: the first index whose total is >= r
SearchInts(totals, r) ==
    CHOOSE i \in 1..Len(totals) :
        /\ totals[i] >= r
        /\ \A j \in 1..(i - 1) : totals[j] < r

\* Chooser.Pick on a non-nil chooser: one draw from the shared generator
Pick(c, r) ==
    LET d == RandIntn(r, c.max)
    IN  [item |-> c.data[SearchInts(c.totals, d.val + 1)].Item, rng |-> d.rng]

RECURSIVE Flatten(_)
\* the unweighted branch: every group's subnets, in order
Flatten(sc) ==
    IF Len(sc) = 0 THEN <<>>
    ELSE Flatten(SubSeq(sc, 1, Len(sc) - 1)) \o sc[Len(sc)].Subnets

\* getSubnets: kind "ok" with the list, "nil" when the seed cannot be read,
\* "panic" when Pick is called on the nil chooser
getSubnets(sc, seed, weighted, r) ==
    IF ~weighted THEN [kind |-> "ok", out |-> Flatten(sc), rng |-> r]
    ELSE LET sv == ReadVarint(seed)
         IN  IF ~sv.ok THEN [kind |-> "nil", out |-> <<>>, rng |-> r]
             ELSE LET r1 == RandSeed(r, sv.val)
                      c == NewChooser(Choices(sc))
                  IN  IF c.nil THEN [kind |-> "panic", out |-> <<>>, rng |-> r1]
                      ELSE LET p == Pick(c, r1)
                           IN  [kind |-> "ok", out |-> p.item, rng |-> p.rng]

(***************************************************************************)
(* parseSubnets and the filters                                            *)
(***************************************************************************)
\* Mask.Size(): the address length in bits
AddrLen(n) == IF n.v6 THEN 128 ELSE 32

\* net.ParseCIDR: the network, its address masked to the prefix
ParseCIDR(c) ==
    [v6 |-> c.v6, ones |-> c.ones,
     ip |-> c.ip - (c.ip % Pow2((IF c.v6 THEN 128 ELSE 32) - c.ones))]

\* a parser that drops the entries net.ParseCIDR rejects
parseSubnetsSkipsBad(phantomSubnets) ==
    LET good(c) == c.ok
        kept == SelectSeq(phantomSubnets, good)
    IN  IF Len(kept) = 0
        THEN [ok |-> FALSE, err |-> "no subnets provided", nets |-> <<>>]
        ELSE [ok |-> TRUE, err |-> "",
              nets |-> [i \in 1..Len(kept) |-> ParseCIDR(kept[i])]]

parseSubnets(phantomSubnets) ==
    IF Len(phantomSubnets) = 0
    THEN [ok |-> FALSE, err |-> "no subnets provided", nets |-> <<>>]
    ELSE IF \E i \in 1..Len(phantomSubnets) : ~phantomSubnets[i].ok
    THEN [ok |-> FALSE, err |-> "invalid CIDR", nets |-> <<>>]
    ELSE [ok |-> TRUE, err |-> "",
          nets |-> [i \in 1..Len(phantomSubnets) |-> ParseCIDR(phantomSubnets[i])]]

\* IP.To4() != nil for the networks ParseCIDR returns here
IsV4(n) == ~n.v6

\* isIPv6: the textual form has a colon before any dot
isIPv6(n) == n.v6

V4Only(obj) == SelectSeq(obj, IsV4)
V6Only(obj) == SelectSeq(obj, isIPv6)

\* transform(s) for a non-nil transform
Transform(f, nets) ==
    IF f = "V4Only" THEN [ok |-> TRUE, nets |-> V4Only(nets)]
    ELSE IF f = "V6Only" THEN [ok |-> TRUE, nets |-> V6Only(nets)]
    ELSE [ok |-> FALSE, nets |-> <<>>]

(***************************************************************************)
(* SelectAddrFromSubnet                                                    *)
(***************************************************************************)
\* byte j (0 = least significant) of maskBigInt, the all-ones value of
\* addrLen bits shifted right by the prefix length; h = addrLen - bits
MaskByte(h, j) ==
    IF h >= 8 * (j + 1) THEN 255
    ELSE IF h > 8 * j THEN Pow2(h - 8 * j) - 1
    ELSE 0

RECURSIVE AndMaskFrom(_, _, _)
\* randBigInt.And(randBigInt, maskBigInt), byte by byte from the least
\* significant byte j upwards
AndMaskFrom(randBytes, h, j) ==
    IF j >= Len(randBytes) \/ MaskByte(h, j) = 0 THEN 0
    ELSE (randBytes[Len(randBytes) - j] % (MaskByte(h, j) + 1))
             + 256 * AndMaskFrom(randBytes, h, j + 1)

\* a mask shifted by one bit less than the prefix length
AndMaskOneBitWide(randBytes, h) == AndMaskFrom(randBytes, h + 1, 0)

AndMask(randBytes, h) == AndMaskFrom(randBytes, h, 0)

\* the address built from the network and the bytes drawn
AddrFromDraw(net1, randBytes) ==
    IntToBytes(net1.ip + AndMask(randBytes, AddrLen(net1) - net1.ones))

SelectAddrFromSubnet(seed, net1, r) ==
    LET sv == ReadVarint(seed)
    IN  IF ~sv.ok THEN [ok |-> FALSE, ip |-> NoIP, rng |-> r]
        ELSE LET rd == RandRead(RandSeed(r, sv.val), AddrLen(net1) \div 8)
             IN  [ok |-> TRUE, ip |-> AddrFromDraw(net1, rd.bytes),
                  rng |-> rd.rng]

(***************************************************************************)
(* selectIPAddr                                                            *)
(***************************************************************************)
\* what one network adds to addresses_total: 2^(width - ones), then Sub 1
NetSpan(n) == Pow2((IF IsV4(n) THEN 32 ELSE 128) - n.ones) - 1

RECURSIVE IdNets(_)
\* the idNet list: min is addresses_total before the network, max after
IdNets(subnets) ==
    IF Len(subnets) = 0 THEN <<>>
    ELSE LET prev == IdNets(SubSeq(subnets, 1, Len(subnets) - 1))
             lo == IF Len(prev) = 0 THEN 0 ELSE prev[Len(prev)].max
             n == subnets[Len(subnets)]
         IN  Append(prev, [min |-> lo, max |-> lo + NetSpan(n), net |-> n])

AddressesTotal(subnets) ==
    LET ids == IdNets(subnets)
    IN  IF Len(ids) = 0 THEN 0 ELSE ids[Len(ids)].max

\* id: the whole seed as an unsigned integer, reduced when above the total
SeedId(seed, total) ==
    LET id == BytesToInt(seed)
    IN  IF id > total THEN id % total ELSE id

\* the range test of the lookup loop
InRange(idn, id) == idn.max >= id /\ idn.min < id

\* the networks of the idNet list whose range holds id, in loop order
Matches(subnets, id) ==
    LET ids == IdNets(subnets)
        hit(x) == InRange(x, id)
        hits == SelectSeq(ids, hit)
    IN  [i \in 1..Len(hits) |-> hits[i].net]

RECURSIVE LookupLoop(_, _, _, _)
\* the loop over the matching networks: result is overwritten by every
\* match, the first failing SelectAddrFromSubnet ends the call
LookupLoop(seed, rest, result, r) ==
    IF Len(rest) = 0 THEN [kind |-> "go", ip |-> result.ip, set |-> result.set,
                           rng |-> r]
    ELSE LET a == SelectAddrFromSubnet(seed, Head(rest), r)
         IN  IF ~a.ok THEN [kind |-> "err", ip |-> NoIP, set |-> FALSE,
                            rng |-> a.rng]
             ELSE LookupLoop(seed, Tail(rest), [ip |-> a.ip, set |-> TRUE],
                             a.rng)

Failure(e, r) == [kind |-> "err", ip |-> NoIP, err |-> e, rng |-> r]
Returned(ip, r) == [kind |-> "addr", ip |-> ip, err |-> "", rng |-> r]
Panicked(r) == [kind |-> "panic", ip |-> NoIP, err |-> "", rng |-> r]

selectIPAddr(seed, subnets, r) ==
    LET total == AddressesTotal(subnets)
    IN  IF total <= 0 THEN Failure("No valid addresses specified", r)
        ELSE LET l == LookupLoop(seed, Matches(subnets, SeedId(seed, total)),
                                 [ip |-> NoIP, set |-> FALSE], r)
             IN  IF l.kind = "err" THEN Failure("Failed to chose IP address", l.rng)
                 ELSE IF ~l.set THEN Failure("no range for index", l.rng)
                 ELSE Returned(l.ip, l.rng)

(***************************************************************************)
(* SelectPhantom                                                           *)
(***************************************************************************)
\* the candidate networks after parsing and the optional filter
Candidates(phantomSubnets, f) ==
    LET p == parseSubnets(phantomSubnets)
    IN  IF ~p.ok THEN [ok |-> FALSE, err |-> "Failed to parse subnets", nets |-> <<>>]
        ELSE IF f = "nil" THEN [ok |-> TRUE, err |-> "", nets |-> p.nets]
        ELSE LET t == Transform(f, p.nets)
             IN  IF ~t.ok THEN [ok |-> FALSE, err |-> "filter error", nets |-> <<>>]
                 ELSE [ok |-> TRUE, err |-> "", nets |-> t.nets]

\* one whole call with the generator in state r: the outcome and the
\* state the generator is left in
SelectPhantom(a, r) ==
    LET g == getSubnets(a.subnets, a.seed, a.weighted, r)
    IN  IF g.kind = "panic" THEN Panicked(g.rng)
        ELSE LET c == Candidates(g.out, a.transform)
             IN  IF ~c.ok THEN Failure(c.err, g.rng)
                 ELSE selectIPAddr(a.seed, c.nets, g.rng)

(***************************************************************************)
(* The configuration store: files, the ClientConf encoding, loading        *)
(***************************************************************************)
DefaultDir == "./assets/"
Dirs == {DefaultDir, "/alt/"}
filenameRoots == "roots"
filenameClientConf == "ClientConf"

\* path.Join(a.path, name)
FileName(dir, name) == <<dir, name, 0>>

\* "."+a.filenameClientConf+"."+getRandString(5)+".tmp" in a directory:
\* one name per directory stands for the random names; the file left by a
\* failed save is overwritten by the next save in that directory
TmpFile(dir) == <<dir, ".ClientConf.tmp", 1>>

\* a save that writes to the configuration file's own name
tmpFilenameInPlace(dir) == FileName(dir, filenameClientConf)

\* tmpFilename of saveClientConf
tmpFilename(dir) == TmpFile(dir)

FileNames ==
    {FileName(d, n) : d \in Dirs, n \in {filenameRoots, filenameClientConf}}
        \cup {TmpFile(d) : d \in Dirs}

NoFile == [exists |-> FALSE, data |-> <<>>]
File(data) == [exists |-> TRUE, data |-> data]

\* decoys are named by numbers; 1, 2, 3 are the three hardcoded ones
DefaultDecoys == <<1, 2, 3>>
DefaultKey == 0
DefaultGeneration == 0

\* pb.ClientConf: an optional field is <<>> when unset, <<v>> when set
EmptyConf == [DecoyList |-> <<>>, Generation |-> <<>>, DefaultPubkey |-> <<>>]
DefaultClientConf ==
    [DecoyList |-> <<DefaultDecoys>>, Generation |-> <<DefaultGeneration>>,
     DefaultPubkey |-> <<DefaultKey>>]

\* proto.Marshal(&a.config): the set fields in field-number order, each a
\* tag followed by its payload (decoy_list = 1 is length-delimited,
\* generation = 2, default_pubkey = 3)
Marshal(c) ==
    (IF c.DecoyList = <<>> THEN <<>>
     ELSE <<1, Len(c.DecoyList[1])>> \o c.DecoyList[1])
    \o (IF c.Generation = <<>> THEN <<>> ELSE <<2, c.Generation[1]>>)
    \o (IF c.DefaultPubkey = <<>> THEN <<>> ELSE <<3, c.DefaultPubkey[1]>>)

RECURSIVE UnmarshalFrom(_, _)
UnmarshalFrom(b, c) ==
    IF Len(b) = 0 THEN [ok |-> TRUE, conf |-> c]
    ELSE IF Len(b) < 2 THEN [ok |-> FALSE, conf |-> EmptyConf]
    ELSE IF b[1] = 1
    THEN IF Len(b) < 2 + b[2] THEN [ok |-> FALSE, conf |-> EmptyConf]
         ELSE UnmarshalFrom(SubSeq(b, 3 + b[2], Len(b)),
                            [c EXCEPT !.DecoyList = <<SubSeq(b, 3, 2 + b[2])>>])
    ELSE IF b[1] = 2
    THEN UnmarshalFrom(SubSeq(b, 3, Len(b)), [c EXCEPT !.Generation = <<b[2]>>])
    ELSE IF b[1] = 3
    THEN UnmarshalFrom(SubSeq(b, 3, Len(b)), [c EXCEPT !.DefaultPubkey = <<b[2]>>])
    ELSE [ok |-> FALSE, conf |-> EmptyConf]

\* proto.Unmarshal(buf, &clientConf) into an empty ClientConf
Unmarshal(b) == UnmarshalFrom(b, EmptyConf)

\* file contents no parser accepts, a well-formed PEM bundle
Garbage == <<99>>
GoodPem(d) == <<7, IF d = DefaultDir THEN 1 ELSE 2>>

\* readRoots: the pool parsed from the file, or the current one kept
ReadRoots(cur, dir, fs) ==
    LET f == fs[FileName(dir, filenameRoots)]
    IN  IF ~f.exists THEN cur
        ELSE IF Len(f.data) = 2 /\ f.data[1] = 7 THEN <<f.data[2]>>
        ELSE cur

\* a readConfigs that gives up when the trust anchors did not load
ReadClientConfAfterRoots(cur, dir, fs) ==
    LET r == fs[FileName(dir, filenameRoots)]
        f == fs[FileName(dir, filenameClientConf)]
    IN  IF ~r.exists \/ ~(Len(r.data) = 2 /\ r.data[1] = 7) THEN cur
        ELSE IF ~f.exists THEN cur
        ELSE IF Unmarshal(f.data).ok THEN Unmarshal(f.data).conf
        ELSE cur

\* readClientConf: the configuration decoded from the file, or the current
\* one kept
ReadClientConf(cur, dir, fs) ==
    LET f == fs[FileName(dir, filenameClientConf)]
    IN  IF ~f.exists THEN cur
        ELSE IF Unmarshal(f.data).ok THEN Unmarshal(f.data).conf
        ELSE cur

\* the configuration a directory holds before the program first runs
StoredConf == [DecoyList |-> <<<<1, 4>>>>, Generation |-> <<MaxGen>>,
               DefaultPubkey |-> <<1>>]

\* file systems the program may start on: in one directory the trust
\* anchors and the configuration are, independently, loadable or not (a
\* file that fails to load is missing in the default directory and
\* unparsable in the other one), in the other directory both load
Unloadable(d) == IF d = DefaultDir THEN NoFile ELSE File(Garbage)

Loadable(fs, d) ==
    /\ fs[FileName(d, filenameRoots)] = File(GoodPem(d))
    /\ fs[FileName(d, filenameClientConf)] = File(Marshal(StoredConf))

InitialFiles ==
    {fs \in [FileNames -> {NoFile, File(Garbage), File(Marshal(StoredConf)),
                           File(GoodPem(DefaultDir)), File(GoodPem("/alt/"))}] :
        /\ \A d \in Dirs :
            /\ fs[FileName(d, filenameRoots)]
                   \in {Unloadable(d), File(GoodPem(d))}
            /\ fs[FileName(d, filenameClientConf)]
                   \in {Unloadable(d), File(Marshal(StoredConf))}
            /\ fs[TmpFile(d)] = NoFile
        /\ \E d \in Dirs : Loadable(fs, d)}

\* arguments of the setters
Gens == 0..MaxGen
Keys == {DefaultKey, 1}
DecoyLists == {<<>>, <<2, 4>>}
NewConfs == {[DecoyList |-> <<<<4, 5>>>>, Generation |-> <<MaxGen>>,
              DefaultPubkey |-> <<>>]}

\* the thresholds and defaults GetDecoy compares with and substitutes
timeoutMin == 20000
timeoutMax == 30000
sendLimitMin == 14400
sendLimitMax == 15614

\* pb.TLSDecoySpec per decoy: hostname, whether it has an IPv4 and an IPv6
\* address, and the optional timeout and tcpwin (<<>> when unset).  The
\* hardcoded decoys 1, 2, 3 set neither; decoy 4 has its timeout at the
\* threshold and a tcpwin below it, decoy 5 a timeout above and its tcpwin
\* at the threshold.
DecoySpec(d) ==
    [Hostname |-> d, HasV4 |-> TRUE, HasV6 |-> d = 4,
     Timeout |-> IF d = 4 THEN <<timeoutMin>>
                 ELSE IF d = 5 THEN <<timeoutMin + 1>> ELSE <<>>,
     Tcpwin |-> IF d = 4 THEN <<sendLimitMin - 1>>
                ELSE IF d = 5 THEN <<sendLimitMin>> ELSE <<>>]

\* pb.TLSDecoySpec{}
ZeroDecoy == [Hostname |-> 0, HasV4 |-> FALSE, HasV6 |-> FALSE,
              Timeout |-> <<>>, Tcpwin |-> <<>>]

\* GetTimeout(), GetTcpwin(): 0 when the field is unset
GetTimeout(rec) == IF rec.Timeout = <<>> THEN 0 ELSE rec.Timeout[1]
GetTcpwin(rec) == IF rec.Tcpwin = <<>> THEN 0 ELSE rec.Tcpwin[1]

\* a comparison that also replaces a timeout equal to the threshold
TimeoutLowInclusive(rec) == GetTimeout(rec) <= timeoutMin

\* chosenDecoy.GetTimeout() < timeoutMin
TimeoutLow(rec) == GetTimeout(rec) < timeoutMin

\* chosenDecoy.GetTcpwin() < sendLimitMin
TcpwinLow(rec) == GetTcpwin(rec) < sendLimitMin

\* GetDecoy after the copy chosenDecoy = *decoys[decoyIndex]: the fields of
\* the copy are pointed at fresh values
EnforceDefaults(chosenDecoy) ==
    [chosenDecoy EXCEPT
        !.Timeout = IF TimeoutLow(chosenDecoy) THEN <<timeoutMax>> ELSE @,
        !.Tcpwin = IF TcpwinLow(chosenDecoy) THEN <<sendLimitMax>> ELSE @]

GetTlsDecoys(c) == IF c.DecoyList = <<>> THEN <<>> ELSE c.DecoyList[1]
GetGeneration(c) == IF c.Generation = <<>> THEN 0 ELSE c.Generation[1]

NoOp == [name |-> "none", arg |-> <<>>]
NoHist == [decoys |-> <<>>, reinit |-> FALSE, failed |-> FALSE, view |-> <<>>]

\* sync.Once: not run yet, running in goroutine p, done
OnceNew == [state |-> "new", by |-> 0]
OnceRunning(p) == [state |-> "running", by |-> p]
OnceDone == [state |-> "done", by |-> 0]
FreeMutex == [writer |-> 0, readers |-> {}]

\* the store has not been constructed
StoreIdle ==
    /\ path = ""
    /\ config = EmptyConf
    /\ roots = <<>>
    /\ mu = FreeMutex
    /\ files = [f \in FileNames |-> NoFile]
    /\ spc = [p \in Procs |-> "idle"]
    /\ sop = [p \in Procs |-> NoOp]
    /\ buf = [p \in Procs |-> <<>>]
    /\ serr = [p \in Procs |-> "nil"]
    /\ sret = [p \in Procs |-> <<>>]
    /\ old = [p \in Procs |-> NoFile]
    /\ nops = 0
    /\ crashed = "no"
    /\ hist = NoHist
    /\ assetsInstance = FALSE
    /\ assetsOnce = OnceNew
    /\ ref = [p \in Procs |-> FALSE]

(***************************************************************************)
(* Sequential caller: SelectPhantom invoked repeatedly, one call at a time *)
(***************************************************************************)
\* what the caller sees of a call
Outcome(o) == [kind |-> o.kind, ip |-> o.ip, err |-> o.err]

\* the networks a call hands to selectIPAddr (none when it stops earlier)
CandidatesOf(a, r) ==
    LET g == getSubnets(a.subnets, a.seed, a.weighted, r)
    IN  IF g.kind = "panic" THEN <<>>
        ELSE Candidates(g.out, a.transform).nets

NoArgs == [seed |-> <<>>, subnets |-> <<>>, transform |-> "nil",
           weighted |-> FALSE]
NoOutcome == [kind |-> "none", ip |-> NoIP, err |-> ""]

\* the concurrent callers are absent
ConcIdle ==
    /\ pc = [p \in Procs |-> "idle"]
    /\ cargs = [p \in Procs |-> NoArgs]
    /\ sub = [p \in Procs |-> <<>>]
    /\ todo = [p \in Procs |-> <<>>]
    /\ ret = [p \in Procs |-> NoOutcome]

\* the sequential caller is absent
SelIdle ==
    /\ in = NoArgs
    /\ outcomes = <<>>
    /\ cand = <<>>

SelInit ==
    /\ ConcIdle
    /\ StoreIdle
    /\ rng = RngInit
    /\ in \in Args
    /\ outcomes = <<>>
    /\ cand = <<>>

\* one invocation of SelectPhantom(seed, subnets, transform, weighted); a
\* panic ends the program, so no call follows it
Call ==
    /\ Len(outcomes) < MaxCalls
    /\ \A i \in 1..Len(outcomes) : outcomes[i].kind # "panic"
    /\ LET o == SelectPhantom(in, rng)
       IN  /\ outcomes' = Append(outcomes, Outcome(o))
           /\ cand' = Append(cand, CandidatesOf(in, rng))
           /\ rng' = o.rng
    /\ UNCHANGED <<in, concVars, storeVars>>

SelNext == Call

SpecSel == SelInit /\ [][SelNext]_vars

(***************************************************************************)
(* Concurrent callers: each goroutine runs one SelectPhantom call, split   *)
(* at its accesses to the shared generator                                 *)
(***************************************************************************)
GoodGroup(c) == [Weight |-> MaxWeightHalves, Subnets |-> <<c>>]

\* configurations the concurrent callers use
ConcConfigs ==
    { <<>>,
      <<GoodGroup(CidrV4(MaxHostBits))>>,
      <<GoodGroup(CidrV4(MaxHostBits)), GoodGroup(CidrV6(MaxHostBits))>> }

ConcArgs == {a \in Args : a.subnets \in ConcConfigs /\ a.transform = "nil"}

ConcInit ==
    /\ SelIdle
    /\ StoreIdle
    /\ rng = RngInit
    /\ pc = [p \in Procs |-> "getSubnets"]
    /\ cargs \in [Procs -> ConcArgs]
    /\ sub = [p \in Procs |-> <<>>]
    /\ todo = [p \in Procs |-> <<>>]
    /\ ret = [p \in Procs |-> NoOutcome]

\* a panic in any goroutine ends the program
Running == \A p \in Procs : pc[p] # "panicked"

Return(p, o) ==
    /\ pc' = [pc EXCEPT ![p] = IF o.kind = "panic" THEN "panicked" ELSE "done"]
    /\ ret' = [ret EXCEPT ![p] = Outcome(o)]

\* getSubnets up to and including rand.Seed (the unweighted branch and the
\* unreadable seed go through without touching the generator)
GetSubnetsSeed(p) ==
    /\ Running
    /\ pc[p] = "getSubnets"
    /\ LET a == cargs[p]
           sv == ReadVarint(a.seed)
       IN  IF ~a.weighted
           THEN /\ sub' = [sub EXCEPT ![p] = Flatten(a.subnets)]
                /\ pc' = [pc EXCEPT ![p] = "select"]
                /\ UNCHANGED rng
           ELSE IF ~sv.ok
           THEN /\ sub' = [sub EXCEPT ![p] = <<>>]
                /\ pc' = [pc EXCEPT ![p] = "select"]
                /\ UNCHANGED rng
           ELSE /\ rng' = RandSeed(rng, sv.val)
                /\ pc' = [pc EXCEPT ![p] = "pick"]
                /\ UNCHANGED sub
    /\ UNCHANGED <<cargs, todo, ret, selVars, storeVars>>

\* wr.NewChooser and c.Pick()
GetSubnetsPick(p) ==
    /\ Running
    /\ pc[p] = "pick"
    /\ LET c == NewChooser(Choices(cargs[p].subnets))
       IN  IF c.nil
           THEN /\ Return(p, Panicked(rng))
                /\ UNCHANGED <<rng, sub>>
           ELSE /\ sub' = [sub EXCEPT ![p] = Pick(c, rng).item]
                /\ rng' = Pick(c, rng).rng
                /\ pc' = [pc EXCEPT ![p] = "select"]
                /\ UNCHANGED ret
    /\ UNCHANGED <<cargs, todo, selVars, storeVars>>

\* parseSubnets, the filter, and selectIPAddr up to the lookup loop
SelectIndex(p) ==
    /\ Running
    /\ pc[p] = "select"
    /\ LET a == cargs[p]
           c == Candidates(sub[p], a.transform)
           total == AddressesTotal(c.nets)
           hits == Matches(c.nets, SeedId(a.seed, total))
       IN  IF ~c.ok
           THEN Return(p, Failure(c.err, rng)) /\ UNCHANGED todo
           ELSE IF total <= 0
           THEN Return(p, Failure("No valid addresses specified", rng))
                    /\ UNCHANGED todo
           ELSE IF Len(hits) = 0
           THEN Return(p, Failure("no range for index", rng)) /\ UNCHANGED todo
           ELSE /\ todo' = [todo EXCEPT ![p] = hits]
                /\ pc' = [pc EXCEPT ![p] = "addrSeed"]
                /\ UNCHANGED ret
    /\ UNCHANGED <<rng, cargs, sub, selVars, storeVars>>

\* SelectAddrFromSubnet up to and including rand.Seed
AddrSeed(p) ==
    /\ Running
    /\ pc[p] = "addrSeed"
    /\ LET sv == ReadVarint(cargs[p].seed)
       IN  IF ~sv.ok
           THEN Return(p, Failure("Failed to chose IP address", rng))
                    /\ UNCHANGED rng
           ELSE /\ rng' = RandSeed(rng, sv.val)
                /\ pc' = [pc EXCEPT ![p] = "addrRead"]
                /\ UNCHANGED ret
    /\ UNCHANGED <<cargs, sub, todo, selVars, storeVars>>

\* rand.Read and the rest of SelectAddrFromSubnet; the call returns when
\* the loop has no further match
AddrRead(p) ==
    /\ Running
    /\ pc[p] = "addrRead"
    /\ LET net1 == Head(todo[p])
           rd == RandRead(rng, AddrLen(net1) \div 8)
       IN  /\ rng' = rd.rng
           /\ todo' = [todo EXCEPT ![p] = Tail(todo[p])]
           /\ IF Len(todo[p]) = 1
              THEN Return(p, Returned(AddrFromDraw(net1, rd.bytes), rd.rng))
              ELSE /\ pc' = [pc EXCEPT ![p] = "addrSeed"]
                   /\ UNCHANGED ret
    /\ UNCHANGED <<cargs, sub, selVars, storeVars>>

ConcNext ==
    \E p \in Procs :
        \/ GetSubnetsSeed(p)
        \/ GetSubnetsPick(p)
        \/ SelectIndex(p)
        \/ AddrSeed(p)
        \/ AddrRead(p)

SpecConc == ConcInit /\ [][ConcNext]_vars

(***************************************************************************)
(* The configuration store: operations                                     *)
(***************************************************************************)
otherVars == <<rng, selVars, concVars, lazyVars>>

\* initAssets(dir) on file system fs: the defaults, then readConfigs
InitConfig(dir, fs) == ReadClientConf(DefaultClientConf, dir, fs)
InitRoots(dir, fs) == ReadRoots(<<>>, dir, fs)

StoreInit ==
    /\ SelIdle
    /\ ConcIdle
    /\ rng = RngInit
    /\ files \in InitialFiles
    /\ path = DefaultDir
    /\ config = InitConfig(path, files)
    /\ roots = InitRoots(path, files)
    /\ mu = FreeMutex
    /\ spc = [p \in Procs |-> "idle"]
    /\ sop = [p \in Procs |-> NoOp]
    /\ buf = [p \in Procs |-> <<>>]
    /\ serr = [p \in Procs |-> "nil"]
    /\ sret = [p \in Procs |-> <<>>]
    /\ old = [p \in Procs |-> NoFile]
    /\ nops = 0
    /\ crashed = "no"
    /\ hist = NoHist
    /\ assetsInstance = TRUE
    /\ assetsOnce = OnceDone
    /\ ref = [p \in Procs |-> TRUE]

ConfFile == FileName(path, filenameClientConf)

Setters == {"SetGeneration", "SetPubkey", "SetDecoys", "SetClientConf"}

\* the history when an operation starts: a writer ends the sequence
\* SetDecoys, AssetsSetDir on the same directory
HistBegin(name, arg) ==
    IF name \in Setters THEN [hist EXCEPT !.decoys = <<>>, !.reinit = FALSE]
    ELSE IF name = "AssetsSetDir"
    THEN IF arg = path THEN [hist EXCEPT !.reinit = (hist.decoys # <<>>)]
         ELSE [hist EXCEPT !.decoys = <<>>, !.reinit = FALSE]
    ELSE hist

\* the history when saveClientConf of operation o ends with result e
HistSaved(o, e) ==
    IF e # "nil" THEN [hist EXCEPT !.failed = TRUE]
    ELSE IF o.name = "SetDecoys" THEN [hist EXCEPT !.decoys = o.arg]
    ELSE hist

\* a goroutine calls an operation of the store
Begin(p, name, arg) ==
    /\ hist' = HistBegin(name, arg)
    /\ crashed = "no"
    /\ spc[p] = "idle"
    /\ nops < MaxOps
    /\ nops' = nops + 1
    /\ sop' = [sop EXCEPT ![p] = [name |-> name, arg |-> <<arg>>]]
    /\ serr' = [serr EXCEPT ![p] = "nil"]
    /\ sret' = [sret EXCEPT ![p] = <<>>]
    /\ old' = [old EXCEPT ![p] = files[ConfFile]]

\* a.Lock()
Lock(p) ==
    /\ mu = FreeMutex
    /\ mu' = [mu EXCEPT !.writer = p]

\* the setters up to their call of saveClientConf
SetGeneration(p, gen) ==
    /\ Begin(p, "SetGeneration", gen)
    /\ Lock(p)
    /\ config' = [config EXCEPT !.Generation = <<gen>>]
    /\ spc' = [spc EXCEPT ![p] = "save"]
    /\ UNCHANGED <<path, roots, files, buf, crashed, otherVars>>

SetPubkey(p, pubkey) ==
    /\ Begin(p, "SetPubkey", pubkey)
    /\ Lock(p)
    /\ config' = [config EXCEPT !.DefaultPubkey = <<pubkey>>]
    /\ spc' = [spc EXCEPT ![p] = "save"]
    /\ UNCHANGED <<path, roots, files, buf, crashed, otherVars>>

SetClientConf(p, conf) ==
    /\ Begin(p, "SetClientConf", conf)
    /\ Lock(p)
    /\ config' = conf
    /\ spc' = [spc EXCEPT ![p] = "save"]
    /\ UNCHANGED <<path, roots, files, buf, crashed, otherVars>>

\* a setter that appends the list to the one in place
DecoysAppended(c, decoys) ==
    [c EXCEPT !.DecoyList = <<GetTlsDecoys(c) \o decoys>>]

\* a.config.DecoyList.TlsDecoys = decoys, on a DecoyList created when nil
DecoysSet(c, decoys) == [c EXCEPT !.DecoyList = <<decoys>>]

SetDecoys(p, decoys) ==
    /\ Begin(p, "SetDecoys", decoys)
    /\ Lock(p)
    /\ config' = DecoysSet(config, decoys)
    /\ spc' = [spc EXCEPT ![p] = "save"]
    /\ UNCHANGED <<path, roots, files, buf, crashed, otherVars>>

\* what a setter returns for the result of saveClientConf
SetterErrSwallowed(e) == "nil"

SetterErr(e) == e

\* saveClientConf ends with result e; the setter's named result is set
SaveDone(p, e) ==
    /\ hist' = HistSaved(sop[p], e)
    /\ serr' = [serr EXCEPT ![p] = e]
    /\ sret' = [sret EXCEPT ![p] = <<SetterErr(e)>>]
    /\ spc' = [spc EXCEPT ![p] = "unlock"]

\* a rename that reports success and moves nothing
RenameSkipped(fs, from, to) == fs

\* os.Rename(from, to)
Rename(fs, from, to) ==
    IF from = to THEN fs
    ELSE [fs EXCEPT ![to] = fs[from], ![from] = NoFile]

\* saveClientConf: proto.Marshal, then WriteFile creates or truncates the
\* temporary file, or fails to
SaveCreate(p) ==
    /\ spc[p] = "save"
    /\ buf' = [buf EXCEPT ![p] = Marshal(config)]
    /\ \/ /\ files' = [files EXCEPT ![tmpFilename(path)] = File(<<>>)]
          /\ spc' = [spc EXCEPT ![p] = "write"]
          /\ UNCHANGED <<serr, sret, hist>>
       \/ /\ SaveDone(p, "write failed")
          /\ UNCHANGED files
    /\ UNCHANGED <<path, config, roots, mu, sop, old, nops, crashed, otherVars>>

\* WriteFile writes the buffer, or fails having written n bytes of it
SaveWrite(p) ==
    /\ spc[p] = "write"
    /\ \/ /\ files' = [files EXCEPT ![tmpFilename(path)] = File(buf[p])]
          /\ spc' = [spc EXCEPT ![p] = "rename"]
          /\ UNCHANGED <<serr, sret, hist>>
       \/ /\ \E n \in 0..Len(buf[p]) :
                files' = [files EXCEPT ![tmpFilename(path)] =
                                           File(SubSeq(buf[p], 1, n))]
          /\ SaveDone(p, "write failed")
    /\ UNCHANGED <<path, config, roots, mu, sop, buf, old, nops, crashed,
                   otherVars>>

\* os.Rename(tmpFilename, filename) succeeds or fails
SaveRename(p) ==
    /\ spc[p] = "rename"
    /\ \/ /\ files' = Rename(files, tmpFilename(path), ConfFile)
          /\ SaveDone(p, "nil")
       \/ /\ SaveDone(p, "rename failed")
          /\ UNCHANGED files
    /\ UNCHANGED <<path, config, roots, mu, sop, buf, old, nops, crashed,
                   otherVars>>

\* AssetsSetDir on the constructed store: Lock, and the path swap when the
\* directory differs (assetsOnce.Do does nothing any more)
AssetsSetDir(p, dir) ==
    /\ Begin(p, "AssetsSetDir", dir)
    /\ Lock(p)
    /\ IF dir # path
       THEN /\ path' = dir
            /\ spc' = [spc EXCEPT ![p] = "reload"]
       ELSE /\ spc' = [spc EXCEPT ![p] = "unlock"]
            /\ UNCHANGED path
    /\ UNCHANGED <<config, roots, files, buf, crashed, otherVars>>

\* assetsInstance.readConfigs() under the lock
readConfigs(p) ==
    /\ spc[p] = "reload"
    /\ roots' = ReadRoots(roots, path, files)
    /\ config' = ReadClientConf(config, path, files)
    /\ spc' = [spc EXCEPT ![p] = "unlock"]
    /\ UNCHANGED <<path, mu, files, sop, buf, serr, sret, old, nops, crashed,
                   hist, otherVars>>

\* the deferred a.Unlock() as the writer returns; its locals are gone
Unlock(p) ==
    /\ spc[p] = "unlock"
    /\ mu' = FreeMutex
    /\ spc' = [spc EXCEPT ![p] = "idle"]
    /\ sop' = [sop EXCEPT ![p] = NoOp]
    /\ buf' = [buf EXCEPT ![p] = <<>>]
    /\ serr' = [serr EXCEPT ![p] = "nil"]
    /\ old' = [old EXCEPT ![p] = NoFile]
    /\ UNCHANGED <<path, config, roots, files, sret, nops, crashed, hist,
                   otherVars>>

\* readers that take a.RLock(), readers that take no lock
LockedReaders == {"GetAssetsDir", "GetRoots", "GetPubkey", "GetGeneration"}
UnlockedReaders == {"GetAllDecoys", "GetV6Decoys", "GetV4Decoys",
                    "IsDecoyInList"}

HasV4(d) == DecoySpec(d).HasV4
HasV6(d) == DecoySpec(d).HasV6

\* what a reader returns from the state it reads
ReadValue(o) ==
    IF o.name = "GetAssetsDir" THEN <<path>>
    ELSE IF o.name = "GetRoots" THEN <<roots>>
    ELSE IF o.name = "GetPubkey" THEN config.DefaultPubkey
    ELSE IF o.name = "GetGeneration" THEN <<GetGeneration(config)>>
    ELSE IF o.name = "GetAllDecoys" THEN <<GetTlsDecoys(config)>>
    ELSE IF o.name = "GetV6Decoys" THEN <<SelectSeq(GetTlsDecoys(config), HasV6)>>
    ELSE IF o.name = "GetV4Decoys" THEN <<SelectSeq(GetTlsDecoys(config), HasV4)>>
    ELSE <<\E i \in 1..Len(GetTlsDecoys(config)) :
              DecoySpec(GetTlsDecoys(config)[i]) = DecoySpec(o.arg[1])>>

\* a.RLock() of a locking reader
RLock(p, name) ==
    /\ Begin(p, name, 0)
    /\ mu.writer = 0
    /\ mu' = [mu EXCEPT !.readers = @ \cup {p}]
    /\ spc' = [spc EXCEPT ![p] = "rlocked"]
    /\ UNCHANGED <<path, config, roots, files, buf, crashed, otherVars>>

\* the read and the deferred a.RUnlock()
RUnlock(p) ==
    /\ spc[p] = "rlocked"
    /\ sret' = [sret EXCEPT ![p] = ReadValue(sop[p])]
    /\ mu' = [mu EXCEPT !.readers = @ \ {p}]
    /\ spc' = [spc EXCEPT ![p] = "idle"]
    /\ sop' = [sop EXCEPT ![p] = NoOp]
    /\ old' = [old EXCEPT ![p] = NoFile]
    /\ UNCHANGED <<path, config, roots, files, buf, serr, nops, crashed,
                   hist, otherVars>>

\* GetDecoy: a.RLock()
GetDecoyLock(p) ==
    /\ Begin(p, "GetDecoy", 0)
    /\ mu.writer = 0
    /\ mu' = [mu EXCEPT !.readers = @ \cup {p}]
    /\ spc' = [spc EXCEPT ![p] = "decoy"]
    /\ UNCHANGED <<path, config, roots, files, buf, crashed, otherVars>>

\* GetDecoy under the read lock: the zero record for an empty list, else
\* the copy of the record at an index getRandInt(0, len(decoys)-1) draws,
\* with the defaults enforced on the copy; then the deferred a.RUnlock().
\* The value returned is kept with the operation's name.
GetDecoyReturn(p) ==
    /\ spc[p] = "decoy"
    /\ LET decoys == GetTlsDecoys(config)
       IN  IF Len(decoys) = 0
           THEN sret' = [sret EXCEPT ![p] = <<"GetDecoy", ZeroDecoy>>]
           ELSE \E decoyIndex \in 1..Len(decoys) :
                   sret' = [sret EXCEPT ![p] =
                               <<"GetDecoy",
                                 EnforceDefaults(DecoySpec(decoys[decoyIndex]))>>]
    /\ mu' = [mu EXCEPT !.readers = @ \ {p}]
    /\ spc' = [spc EXCEPT ![p] = "idle"]
    /\ sop' = [sop EXCEPT ![p] = NoOp]
    /\ old' = [old EXCEPT ![p] = NoFile]
    /\ UNCHANGED <<path, config, roots, files, buf, serr, nops, crashed,
                   hist, otherVars>>

\* GetAllDecoys, GetV6Decoys, GetV4Decoys, IsDecoyInList start reading
\* a.config without a lock
ReadBegin(p, name) ==
    /\ Begin(p, name, 4)
    /\ spc' = [spc EXCEPT ![p] = "reading"]
    /\ UNCHANGED <<path, config, roots, mu, files, buf, crashed, otherVars>>

ReadEnd(p) ==
    /\ spc[p] = "reading"
    /\ sret' = [sret EXCEPT ![p] = ReadValue(sop[p])]
    /\ spc' = [spc EXCEPT ![p] = "idle"]
    /\ sop' = [sop EXCEPT ![p] = NoOp]
    /\ old' = [old EXCEPT ![p] = NoFile]
    /\ UNCHANGED <<path, config, roots, mu, files, buf, serr, nops, crashed,
                   hist, otherVars>>

\* where the goroutine holding the write lock stands, "idle" without one
WriterAt == IF mu.writer = 0 THEN "idle" ELSE spc[mu.writer]

\* the program stops dead: its memory is gone, the files stay as they are
Crash ==
    /\ crashed = "no"
    /\ crashed' = WriterAt
    /\ path' = ""
    /\ config' = EmptyConf
    /\ roots' = <<>>
    /\ mu' = FreeMutex
    /\ spc' = [p \in Procs |-> "idle"]
    /\ sop' = [p \in Procs |-> NoOp]
    /\ buf' = [p \in Procs |-> <<>>]
    /\ serr' = [p \in Procs |-> "nil"]
    /\ sret' = [p \in Procs |-> <<>>]
    /\ old' = [p \in Procs |-> NoFile]
    /\ nops' = 0
    /\ hist' = [hist EXCEPT !.decoys = <<>>, !.reinit = FALSE]
    /\ UNCHANGED <<files, otherVars>>

StoreNext ==
    \/ \E p \in Procs :
        \/ \E gen \in Gens : SetGeneration(p, gen)
        \/ \E pubkey \in Keys : SetPubkey(p, pubkey)
        \/ \E conf \in NewConfs : SetClientConf(p, conf)
        \/ \E decoys \in DecoyLists : SetDecoys(p, decoys)
        \/ SaveCreate(p)
        \/ SaveWrite(p)
        \/ SaveRename(p)
        \/ \E dir \in Dirs : AssetsSetDir(p, dir)
        \/ readConfigs(p)
        \/ Unlock(p)
        \/ \E name \in LockedReaders : RLock(p, name)
        \/ RUnlock(p)
        \/ \E name \in UnlockedReaders : ReadBegin(p, name)
        \/ ReadEnd(p)
        \/ GetDecoyLock(p)
        \/ GetDecoyReturn(p)
    \/ Crash

SpecStore == StoreInit /\ [][StoreNext]_vars

(***************************************************************************)
(* The store constructed on first use: Assets(), AssetsSetDir(dir) and the *)
(* lock-taking readers called by goroutines from the start of the program, *)
(* readConfigs split at its reads of a.path and its assignments            *)
(***************************************************************************)
lazyOther == <<rng, selVars, concVars, files, serr, old, crashed>>

LazyInit ==
    /\ SelIdle
    /\ ConcIdle
    /\ rng = RngInit
    /\ files \in InitialFiles
    /\ path = ""
    /\ config = EmptyConf
    /\ roots = <<>>
    /\ mu = FreeMutex
    /\ spc = [p \in Procs |-> "idle"]
    /\ sop = [p \in Procs |-> NoOp]
    /\ buf = [p \in Procs |-> <<>>]
    /\ serr = [p \in Procs |-> "nil"]
    /\ sret = [p \in Procs |-> <<>>]
    /\ old = [p \in Procs |-> NoFile]
    /\ nops = 0
    /\ crashed = "no"
    /\ hist = NoHist
    /\ assetsInstance = FALSE
    /\ assetsOnce = OnceNew
    /\ ref = [p \in Procs |-> FALSE]

\* goroutine p is the one running initAssets inside assetsOnce.Do
Initializer(p) == assetsOnce = OnceRunning(p)

\* a goroutine starts a call
LazyBegin(p, name, arg) ==
    /\ spc[p] = "idle"
    /\ nops < MaxLazyOps
    /\ nops' = nops + 1
    /\ sop' = [sop EXCEPT ![p] = [name |-> name, arg |-> <<arg>>]]
    /\ sret' = [sret EXCEPT ![p] = <<>>]

\* Assets(): straight to assetsOnce.Do with the default directory
Assets(p) ==
    /\ LazyBegin(p, "Assets", DefaultDir)
    /\ spc' = [spc EXCEPT ![p] = "onceDo"]
    /\ UNCHANGED <<path, config, roots, mu, buf, hist, lazyVars, lazyOther>>

\* AssetsSetDir(dir) up to its test assetsInstance != nil, a read of the
\* package variable that nothing orders after the write in initAssets:
\* a goroutine that has not yet been handed the instance sees the pointer
\* or still sees nil once the write has happened
AssetsSetDirTest(p, dir) ==
    /\ LazyBegin(p, "AssetsSetDir", dir)
    /\ \/ /\ assetsInstance
          /\ spc' = [spc EXCEPT ![p] = "lock"]
       \/ /\ ~assetsInstance \/ ~ref[p]
          /\ spc' = [spc EXCEPT ![p] = "onceDo"]
    /\ UNCHANGED <<path, config, roots, mu, buf, hist, lazyVars, lazyOther>>

\* assetsInstance.Lock() and the comparison of dir with the path: the
\* path is swapped and readConfigs follows, or the call goes on to
\* assetsOnce.Do with the lock held
AssetsSetDirLock(p) ==
    /\ spc[p] = "lock"
    /\ Lock(p)
    /\ IF sop[p].arg[1] # path
       THEN /\ path' = sop[p].arg[1]
            /\ spc' = [spc EXCEPT ![p] = "rootsFilename"]
            /\ hist' = [hist EXCEPT !.view = <<>>]
       ELSE /\ spc' = [spc EXCEPT ![p] = "onceDo"]
            /\ UNCHANGED <<path, hist>>
    /\ UNCHANGED <<config, roots, sop, buf, sret, nops, lazyVars, lazyOther>>

\* assetsOnce.Do(_initAssets): the first caller runs the function, a
\* caller arriving while it runs waits, a later caller returns at once
assetsOnceDo(p) ==
    /\ spc[p] = "onceDo"
    /\ \/ /\ assetsOnce = OnceNew
          /\ assetsOnce' = OnceRunning(p)
          /\ spc' = [spc EXCEPT ![p] = "initAssets"]
       \/ /\ assetsOnce = OnceDone
          /\ spc' = [spc EXCEPT ![p] = "return"]
          /\ UNCHANGED assetsOnce
    /\ UNCHANGED <<path, config, roots, mu, sop, buf, sret, nops, hist,
                   assetsInstance, ref, lazyOther>>

\* initAssets(path) up to readConfigs: the instance with the defaults is
\* built and stored in assetsInstance
initAssets(p) ==
    /\ spc[p] = "initAssets"
    /\ path' = sop[p].arg[1]
    /\ config' = DefaultClientConf
    /\ roots' = <<>>
    /\ assetsInstance' = TRUE
    /\ spc' = [spc EXCEPT ![p] = "rootsFilename"]
    /\ UNCHANGED <<mu, sop, buf, sret, nops, hist, assetsOnce, ref, lazyOther>>

\* readConfigs: rootsFilename := path.Join(a.path, a.filenameRoots)
rootsFilename(p) ==
    /\ spc[p] = "rootsFilename"
    /\ buf' = [buf EXCEPT ![p] = <<path>>]
    /\ spc' = [spc EXCEPT ![p] = "readRoots"]
    /\ UNCHANGED <<path, config, roots, mu, sop, sret, nops, hist, lazyVars,
                   lazyOther>>

\* readConfigs: readRoots(rootsFilename)
readRoots(p) ==
    /\ spc[p] = "readRoots"
    /\ roots' = ReadRoots(roots, buf[p][1], files)
    /\ spc' = [spc EXCEPT ![p] = "clientConfFilename"]
    /\ UNCHANGED <<path, config, mu, sop, buf, sret, nops, hist, lazyVars,
                   lazyOther>>

\* readConfigs: clientConfFilename := path.Join(a.path, a.filenameClientConf)
clientConfFilename(p) ==
    /\ spc[p] = "clientConfFilename"
    /\ buf' = [buf EXCEPT ![p] = <<path>>]
    /\ spc' = [spc EXCEPT ![p] = "readClientConf"]
    /\ UNCHANGED <<path, config, roots, mu, sop, sret, nops, hist, lazyVars,
                   lazyOther>>

\* readConfigs: readClientConf(clientConfFilename), which ends readConfigs:
\* inside assetsOnce.Do the Once is done, in AssetsSetDir the reload is
\* over and what it leaves is remembered
readClientConf(p) ==
    /\ spc[p] = "readClientConf"
    /\ config' = ReadClientConf(config, buf[p][1], files)
    /\ spc' = [spc EXCEPT ![p] = "return"]
    /\ buf' = [buf EXCEPT ![p] = <<>>]
    /\ IF Initializer(p)
       THEN /\ assetsOnce' = OnceDone
            /\ UNCHANGED hist
       ELSE /\ hist' = [hist EXCEPT !.view =
                           <<[path |-> path, config |-> config',
                              roots |-> roots]>>]
            /\ UNCHANGED assetsOnce
    /\ UNCHANGED <<path, roots, mu, sop, sret, nops, assetsInstance, ref,
                   lazyOther>>

\* return assetsInstance, after the deferred Unlock when the lock is held
ReturnInstance(p) ==
    /\ spc[p] = "return"
    /\ mu' = IF mu.writer = p THEN FreeMutex ELSE mu
    /\ ref' = [ref EXCEPT ![p] = TRUE]
    /\ sret' = [sret EXCEPT ![p] = <<assetsOnce.state>>]
    /\ spc' = [spc EXCEPT ![p] = "idle"]
    /\ sop' = [sop EXCEPT ![p] = NoOp]
    /\ UNCHANGED <<path, config, roots, buf, nops, hist, assetsInstance,
                   assetsOnce, lazyOther>>

\* a lock-taking getter called on the instance a goroutine was given
ReaderRLock(p, name) ==
    /\ ref[p]
    /\ LazyBegin(p, name, 0)
    /\ mu.writer = 0
    /\ mu' = [mu EXCEPT !.readers = @ \cup {p}]
    /\ spc' = [spc EXCEPT ![p] = "rlocked"]
    /\ UNCHANGED <<path, config, roots, buf, hist, lazyVars, lazyOther>>

\* its read and the deferred RUnlock
ReaderRUnlock(p) ==
    /\ spc[p] = "rlocked"
    /\ sret' = [sret EXCEPT ![p] = ReadValue(sop[p])]
    /\ mu' = [mu EXCEPT !.readers = @ \ {p}]
    /\ spc' = [spc EXCEPT ![p] = "idle"]
    /\ sop' = [sop EXCEPT ![p] = NoOp]
    /\ UNCHANGED <<path, config, roots, buf, nops, hist, lazyVars, lazyOther>>

LazyNext ==
    \E p \in Procs :
        \/ Assets(p)
        \/ \E dir \in Dirs : AssetsSetDirTest(p, dir)
        \/ AssetsSetDirLock(p)
        \/ assetsOnceDo(p)
        \/ initAssets(p)
        \/ rootsFilename(p)
        \/ readRoots(p)
        \/ clientConfFilename(p)
        \/ readClientConf(p)
        \/ ReturnInstance(p)
        \/ \E name \in LockedReaders : ReaderRLock(p, name)
        \/ ReaderRUnlock(p)

SpecLazy == LazyInit /\ [][LazyNext]_vars

(***************************************************************************)
(* Properties of the phantom selector                                      *)
(***************************************************************************)
\* what a goroutine's call returns when it runs alone
Alone(p) == Outcome(SelectPhantom(cargs[p], RngInit))

\* C1: with concurrent SelectPhantom calls interleaved at their seed and
\* draw steps, every call that returns has returned what it returns when
\* run alone with its own secret and configuration.
C1_ConcurrentCallsIsolated ==
    \A p \in Procs : pc[p] = "done" => ret[p] = Alone(p)

\* C2: sequential invocations with the same secret, configuration, filter
\* and weighting flag have the identical outcome: the same address, or all
\* fail.
C2_Determinism ==
    \A i, j \in 1..Len(outcomes) :
        /\ outcomes[i].kind = outcomes[j].kind
        /\ outcomes[i].ip = outcomes[j].ip

\* two weighted calls have returned an address with host bits drawn from
\* the generator
C2_Witness ==
    /\ Len(outcomes) = 2
    /\ in.weighted
    /\ outcomes[2].kind = "addr"
    /\ Len(cand[2]) = 1
    /\ BytesToInt(outcomes[2].ip) > cand[2][1].ip

\* the first call had exactly one candidate network, of exactly one
\* address, and a secret a seed can be read from
SingletonCase ==
    /\ Len(outcomes) >= 1
    /\ Len(cand[1]) = 1
    /\ cand[1][1].ones = AddrLen(cand[1][1])
    /\ ReadVarint(in.seed).ok

\* C3: for a candidate set of one subnet that holds exactly one address (a
\* /32 or a /128), selection succeeds for every secret a seed can be read
\* from and returns that address.
C3_SingletonSubnet ==
    SingletonCase =>
        /\ outcomes[1].kind = "addr"
        /\ BytesToInt(outcomes[1].ip) = cand[1][1].ip

\* first and last address of a network
NetBase(n) == n.ip - (n.ip % Pow2(AddrLen(n) - n.ones))
NetLast(n) == NetBase(n) + Pow2(AddrLen(n) - n.ones) - 1

InNetwork(ip, n) ==
    /\ NetBase(n) <= BytesToInt(ip)
    /\ BytesToInt(ip) <= NetLast(n)

\* C4: an address SelectPhantom returns lies between the base and the last
\* address of one of the candidate networks left after the filter.
C4_RangeContainment ==
    \A i \in 1..Len(outcomes) :
        outcomes[i].kind = "addr" =>
            \E k \in 1..Len(cand[i]) : InNetwork(outcomes[i].ip, cand[i][k])

\* an address with the highest host offset of its network has been
\* returned from a candidate list of two networks
C4_Witness ==
    /\ Len(outcomes) >= 1
    /\ outcomes[1].kind = "addr"
    /\ Len(cand[1]) = 2
    /\ \E k \in 1..2 :
          /\ cand[1][k].ones < AddrLen(cand[1][k])
          /\ BytesToInt(outcomes[1].ip) = NetLast(cand[1][k])

\* C5: for a non-empty candidate list with non-zero total address space
\* and any secret, the index lies in a network's range: selectIPAddr never
\* fails for want of a range.
C5_RangeAlwaysFound ==
    (/\ Len(outcomes) >= 1
     /\ Len(cand[1]) > 0
     /\ AddressesTotal(cand[1]) > 0)
        => outcomes[1].err # "no range for index"

\* C9: SelectPhantom with an empty group list returns an error and no
\* address, weighted or not.
C9_EmptyConfigFails ==
    (Len(outcomes) >= 1 /\ in.subnets = <<>>) =>
        /\ outcomes[1].kind = "err"
        /\ outcomes[1].ip = NoIP

\* C10: in weighted mode with a non-empty group list whose weights are all
\* 0, SelectPhantom returns an error to its caller: no address, no abort.
C10_ZeroWeightFails ==
    (/\ Len(outcomes) >= 1
     /\ in.weighted
     /\ Len(in.subnets) > 0
     /\ \A i \in 1..Len(in.subnets) : in.subnets[i].Weight = 0)
        => outcomes[1].kind = "err"

\* what getSubnets returns to the first call
FirstPicked == getSubnets(in.subnets, in.seed, in.weighted, RngInit)

\* the first call returned the error of stage e and no address
FailedWith(e) ==
    /\ outcomes[1].kind = "err"
    /\ outcomes[1].ip = NoIP
    /\ outcomes[1].err = e

\* the strings handed to the parser all parse
AllParse == \A i \in 1..Len(FirstPicked.out) : FirstPicked.out[i].ok

\* the filter of the call keeps none of the parsed networks
RejectsAll ==
    \/ in.transform = "V4Only"
           /\ \A i \in 1..Len(FirstPicked.out) : FirstPicked.out[i].v6
    \/ in.transform = "V6Only"
           /\ \A i \in 1..Len(FirstPicked.out) : ~FirstPicked.out[i].v6

\* C11: SelectPhantom runs group selection, CIDR parsing, the optional
\* filter and index selection in this order and stops at the first stage
\* that fails: a malformed CIDR entry, a filter returning an error, a
\* filter rejecting every network and a zero-size address space each make
\* it return that stage's error and no address.
C11_FirstFailingStageFails ==
    (Len(outcomes) >= 1 /\ FirstPicked.kind # "panic") =>
        /\ ~AllParse => FailedWith("Failed to parse subnets")
        /\ (AllParse /\ Len(FirstPicked.out) > 0 /\ in.transform = "FilterErr")
               => FailedWith("filter error")
        /\ (AllParse /\ Len(FirstPicked.out) > 0 /\ RejectsAll)
               => FailedWith("No valid addresses specified")
        /\ (AllParse /\ Len(FirstPicked.out) > 0 /\ in.transform = "nil"
               /\ AddressesTotal(cand[1]) = 0)
               => FailedWith("No valid addresses specified")

\* a weighted call whose picked group holds a malformed entry has failed
\* in the parser although its filter would have failed too
C11_Witness ==
    /\ Len(outcomes) >= 1
    /\ in.weighted
    /\ FirstPicked.kind = "ok"
    /\ ~AllParse
    /\ in.transform = "FilterErr"
    /\ FailedWith("Failed to parse subnets")

\* the subnet lists of the groups whose weight is greater than 0
PositiveGroups(sc) ==
    {sc[k].Subnets : k \in {j \in 1..Len(sc) : sc[j].Weight > 0}}

\* the subnet lists the weighted draw can return, over every value the
\* generator can draw
Winners(sc) ==
    LET c == NewChooser(Choices(sc))
    IN  IF c.nil THEN {} ELSE {Pick(c, r).item : r \in 0..(RngMod - 1)}

\* C12: in weighted mode with positive total weight, the groups that can
\* win the draw are exactly the groups whose weight is greater than 0: a
\* zero-weight group never wins, every group of positive weight, however
\* small, wins for some draw value; the group a call picked is one of them.
C12_WinnersArePositive ==
    (/\ Len(outcomes) >= 1
     /\ in.weighted
     /\ ReadVarint(in.seed).ok
     /\ PositiveGroups(in.subnets) # {})
        => /\ Winners(in.subnets) = PositiveGroups(in.subnets)
           /\ FirstPicked.kind = "ok"
           /\ FirstPicked.out \in PositiveGroups(in.subnets)

\* the call is unweighted and unfiltered on one group holding the one
\* IPv4 network with MaxHostBits host bits
OneSmallNetwork ==
    /\ ~in.weighted
    /\ in.transform = "nil"
    /\ Len(in.subnets) = 1
    /\ in.subnets[1].Subnets = <<CidrV4(MaxHostBits)>>

\* C16: on a single unweighted group of one IPv4 network with 2^k
\* addresses the index space is 0..2^k-1 and every call returns the
\* address whose host offset is the index the secret encodes: the base
\* address plus the secret, read as an integer, modulo 2^k.
C16_OffsetIsIndex ==
    OneSmallNetwork =>
        \A i \in 1..Len(outcomes) :
            /\ outcomes[i].kind = "addr"
            /\ BytesToInt(outcomes[i].ip)
                   = NetBase(CidrV4(MaxHostBits))
                         + (BytesToInt(in.seed) % Pow2(MaxHostBits))

\* the number of addresses of a network: 2^(address width - prefix length)
NetSize(n) == Pow2(AddrLen(n) - n.ones)

RECURSIVE SumSizes(_)
SumSizes(nets) ==
    IF Len(nets) = 0 THEN 0
    ELSE SumSizes(SubSeq(nets, 1, Len(nets) - 1)) + NetSize(nets[Len(nets)])

\* the index values the lookup loop maps to entry idn of the idNet list
IndexValues(idn, nets) == {id \in 0..SumSizes(nets) : InRange(idn, id)}

\* C17: in selectIPAddr the number of index values that map to a candidate
\* network is 2^(address width - prefix length), the ranges of consecutive
\* networks are contiguous and disjoint in iteration order, and the total
\* index space is the sum of these sizes.
C17_RangeSizes ==
    (Len(outcomes) >= 1 /\ Len(cand[1]) > 0) =>
        LET nets == cand[1]
            ids == IdNets(nets)
        IN  /\ \A k \in 1..Len(ids) :
                   Cardinality(IndexValues(ids[k], nets)) = NetSize(nets[k])
            /\ \A k \in 1..(Len(ids) - 1) : ids[k + 1].min = ids[k].max
            /\ \A j, k \in 1..Len(ids) :
                   j # k => IndexValues(ids[j], nets)
                                \cap IndexValues(ids[k], nets) = {}
            /\ AddressesTotal(nets) = SumSizes(nets)

(***************************************************************************)
(* Properties of the configuration store                                   *)
(***************************************************************************)
\* goroutine p is reading the store
Reading(p) == spc[p] \in {"rlocked", "reading", "decoy"}

\* C6: no reader operation reads the configuration while a writer is
\* between taking the exclusive lock and finishing its in-memory update and
\* its persistence; readers overlap only with readers.
C6_ReadersExcludeWriters ==
    \A p \in Procs : Reading(p) => mu.writer = 0

\* C7: the real configuration file of every directory changes only in the
\* rename step of saveClientConf, and then to the complete encoding of the
\* new configuration; at every other step, a failure or crash included, it
\* keeps the complete content it had.
C7_AtomicPersistence ==
    [][\A d \in Dirs :
          files'[FileName(d, filenameClientConf)]
                  # files[FileName(d, filenameClientConf)]
              => /\ d = path
                 /\ \E p \in Procs : spc[p] = "rename" /\ mu.writer = p
                 /\ files'[FileName(d, filenameClientConf)]
                        = File(Marshal(config))]_vars

\* the program crashed with the temporary file written and the rename not
\* done: the new configuration is in the temporary file only
C7_Witness ==
    /\ crashed = "rename"
    /\ \E d \in Dirs :
          /\ files[TmpFile(d)].exists
          /\ files[FileName(d, filenameClientConf)].exists
          /\ files[TmpFile(d)] # files[FileName(d, filenameClientConf)]

\* the in-memory configuration holds what setter operation o set
NewValueHolds(o) ==
    IF o.name = "SetGeneration" THEN config.Generation = o.arg
    ELSE IF o.name = "SetPubkey" THEN config.DefaultPubkey = o.arg
    ELSE IF o.name = "SetDecoys" THEN config.DecoyList = o.arg
    ELSE config = o.arg[1]

\* a setter is about to return after its write or rename failed
SaveFailed(p) ==
    /\ spc[p] = "unlock"
    /\ sop[p].name \in Setters
    /\ serr[p] \in {"write failed", "rename failed"}

\* C8: when the write of the temporary file or the rename fails, the
\* setter returns an error, the in-memory configuration keeps the new
\* value, and the real configuration file keeps its previous content.
C8_FailedSaveKeepsMemory ==
    \A p \in Procs :
        SaveFailed(p) =>
            /\ sret[p] # <<"nil">>
            /\ NewValueHolds(sop[p])
            /\ files[ConfFile] = old[p]

\* SetDecoys is returning a failed rename: memory has the new list, the
\* file on disk still decodes to another configuration
C8_Witness ==
    \E p \in Procs :
        /\ SaveFailed(p)
        /\ serr[p] = "rename failed"
        /\ sop[p].name = "SetDecoys"
        /\ files[ConfFile].exists
        /\ Unmarshal(files[ConfFile].data).ok
        /\ Unmarshal(files[ConfFile].data).conf # config

\* the record GetDecoy is to return for stored record rec
Expected(rec) ==
    [rec EXCEPT
        !.Timeout = IF GetTimeout(rec) < timeoutMin THEN <<timeoutMax>> ELSE @,
        !.Tcpwin = IF GetTcpwin(rec) < sendLimitMin THEN <<sendLimitMax>> ELSE @]

\* goroutine p returns from GetDecoy in this step
GetDecoyReturns(p) ==
    spc[p] = "decoy" /\ spc'[p] = "idle" /\ crashed' = "no"

\* C13: GetDecoy never changes the store: path, configuration, trust
\* anchors and files are the same after it as before, and for a non-empty
\* list what it returns is a stored record with a timeout (send window)
\* below the minimum replaced by the maximum default and a value at or
\* above the minimum kept.
C13_GetDecoyClampsCopyOnly ==
    [][\A p \in Procs :
          GetDecoyReturns(p) =>
              /\ config' = config /\ path' = path /\ roots' = roots
              /\ files' = files
              /\ GetTlsDecoys(config) # <<>> =>
                     \E i \in 1..Len(GetTlsDecoys(config)) :
                         sret'[p][2] = Expected(DecoySpec(GetTlsDecoys(config)[i]))]_vars

\* GetDecoy has returned decoy 4: its timeout, at the threshold, is its
\* own, its send window is the maximum default, and the stored list still
\* holds decoy 4
C13_Witness ==
    \E p \in Procs :
        /\ Len(sret[p]) = 2
        /\ sret[p][2] = [DecoySpec(4) EXCEPT !.Tcpwin = <<sendLimitMax>>]
        /\ sret[p][2].Timeout = <<timeoutMin>>
        /\ \E i \in 1..Len(GetTlsDecoys(config)) : GetTlsDecoys(config)[i] = 4

\* C14: once SetDecoys(L) has succeeded and AssetsSetDir on the same
\* directory has followed it with no writer in between or after,
\* GetAllDecoys returns L, the same records in the same order, and L is
\* also what a load of the directory's configuration file yields.
C14_SetDecoysRoundTrip ==
    (/\ hist.decoys # <<>>
     /\ hist.reinit
     /\ mu.writer = 0
     /\ crashed = "no")
        => /\ ReadValue([name |-> "GetAllDecoys", arg |-> <<>>]) = hist.decoys
           /\ files[ConfFile].exists
           /\ GetTlsDecoys(ReadClientConf(EmptyConf, path, files))
                  = hist.decoys[1]

\* SetDecoys of a two-record list was saved, AssetsSetDir on the same
\* directory has returned, and the store lists the two records
C14_Witness ==
    /\ hist.decoys = <<(<<2, 4>>)>>
    /\ hist.reinit
    /\ mu.writer = 0
    /\ crashed = "no"
    /\ GetTlsDecoys(config) = <<2, 4>>
    /\ files[ConfFile] = File(Marshal(config))

\* the trust-anchor file of directory d is there and is a PEM bundle
AnchorsLoad(d) == files[FileName(d, filenameRoots)] = File(GoodPem(d))

\* the configuration file of directory d is there and decodes
ConfLoads(d) ==
    /\ files[FileName(d, filenameClientConf)].exists
    /\ Unmarshal(files[FileName(d, filenameClientConf)].data).ok

\* anchors r1 and configuration c1 are what a load of directory d leaves
\* of anchors r0 and configuration c0: each value is replaced when its own
\* file loads and kept when it does not
LoadedOver(r0, c0, d, r1, c1) ==
    /\ r1 = IF AnchorsLoad(d) THEN <<GoodPem(d)[2]>> ELSE r0
    /\ c1 = IF ConfLoads(d)
            THEN Unmarshal(files[FileName(d, filenameClientConf)].data).conf
            ELSE c0

\* the store as initAssets left it, before any operation
JustInitialized == nops = 0 /\ crashed = "no"

\* C15: in initialization and in every reload the trust anchors and the
\* configuration load independently: a load that fails keeps its own
\* value (after initialization the defaults: three decoys, generation 0),
\* a load that succeeds replaces its own value, whatever the other did.
C15_IndependentLoads ==
    /\ [](JustInitialized =>
            /\ LoadedOver(<<>>, DefaultClientConf, path, roots, config)
            /\ ~ConfLoads(path) =>
                   /\ Len(GetTlsDecoys(config)) = 3
                   /\ GetGeneration(config) = 0)
    /\ [][\A p \in Procs :
              (spc[p] = "reload" /\ spc'[p] = "unlock") =>
                  LoadedOver(roots, config, path, roots', config')]_vars

\* a reload of a directory whose trust anchors do not parse has finished:
\* the anchors are still those of the first directory, the configuration
\* is the one decoded from the new directory
C15_Witness ==
    \E p \in Procs :
        /\ spc[p] = "unlock"
        /\ sop[p].name = "AssetsSetDir"
        /\ path = "/alt/"
        /\ ~AnchorsLoad(path) /\ ConfLoads(path)
        /\ roots = <<GoodPem(DefaultDir)[2]>>
        /\ config = StoredConf
        /\ hist.decoys = <<>>

\* no writer holds the lock and no saveClientConf has failed so far
Quiet == mu.writer = 0 /\ ~hist.failed /\ crashed = "no"

\* the configuration file of the current directory is there and decodes
CurrentFileDecodes ==
    /\ files[ConfFile].exists
    /\ Unmarshal(files[ConfFile].data).ok

\* C20 as claimed: whenever no writer holds the lock and no save has ever
\* failed, the configuration file in the current directory exists and
\* decodes to the in-memory configuration.
C20_FileMirrorsMemory ==
    Quiet =>
        /\ CurrentFileDecodes
        /\ Unmarshal(files[ConfFile].data).conf = config

\* C20 as amended: whenever no writer holds the lock and no save has ever
\* failed, the configuration file in the current directory, if it exists
\* and decodes, decodes to the in-memory configuration.
C20_FileMirrorsMemoryWhenLoadable ==
    (Quiet /\ CurrentFileDecodes) =>
        Unmarshal(files[ConfFile].data).conf = config

\* after a change of directory a setter has saved a list of decoys there:
\* the new directory's file decodes to the configuration in memory, which
\* is not the one the directory held before
C20_Witness ==
    /\ Quiet
    /\ path = "/alt/"
    /\ hist.decoys # <<>>
    /\ CurrentFileDecodes
    /\ Unmarshal(files[ConfFile].data).conf = config
    /\ config # StoredConf

(***************************************************************************)
(* Properties of the store constructed on first use                        *)
(***************************************************************************)
ReadConfigsSteps ==
    {"rootsFilename", "readRoots", "clientConfFilename", "readClientConf"}

\* goroutine p is inside the readConfigs that initAssets calls
InInitialLoad(p) == Initializer(p) /\ spc[p] \in ReadConfigsSteps

\* goroutine q is inside another readConfigs or holds the lock for a read
LoadsOrReads(q) == spc[q] \in ReadConfigsSteps \cup {"rlocked"}

\* C19: the store constructed on first use cannot be reached by another
\* goroutine before its first load has finished: while the readConfigs of
\* initAssets runs, no other goroutine runs readConfigs or reads under the
\* lock, and a caller of Assets or AssetsSetDir is given the instance only
\* after that first load has finished
C19_InitialLoadIsPrivate ==
    /\ \A p \in Procs : InInitialLoad(p) =>
           \A q \in Procs \ {p} : ~LoadsOrReads(q)
    /\ \A p \in Procs : ref[p] => assetsOnce = OnceDone

\* what a reader that holds the lock sees
View == [path |-> path, config |-> config, roots |-> roots]

\* C18: AssetsSetDir(dir) with another directory swaps the path and
\* reloads inside one critical section, so that a reader holding the lock
\* after such a call sees the new path together with what that reload
\* left; AssetsSetDir(dir) with the current directory changes neither the
\* path, the configuration, the trust anchors nor any file
C18_ReinitializeIsAtomic ==
    /\ [](\A p \in Procs :
            (spc[p] = "rlocked" /\ hist.view # <<>>) => View = hist.view[1])
    /\ [][\A p \in Procs :
            (spc[p] = "lock" /\ spc'[p] # "lock" /\ sop[p].arg[1] = path)
                => UNCHANGED <<path, config, roots, files>>]_vars

====
